---- MODULE Spec2Model ----
(***************************************************************************)
(* Model of the debug pages of sloop's webserver                           *)
(* (pkg/sloop/webserver/debug.go): viewKeyHandler, listKeysHandler and     *)
(* histogramHandler, each run against a read-only badger store.            *)
(*                                                                         *)
(* A key is a sequence of tokens whose concatenation is the key's string.  *)
(* The tokens form a prefix-free code, so one key's string is a prefix of  *)
(* another's exactly when its token sequence is a prefix of the other's.   *)
(***************************************************************************)
EXTENDS Integers, Sequences, FiniteSets, TLC

(* ------------------------------ bounds -------------------------------- *)

\* Largest number of stored versions in a store the model considers.
MaxStoreLen == 4

\* Largest value of the maxrows request parameter the model considers.
MaxCap == 2

(* --------------------------- program constants ------------------------ *)

\* Default of the lookback parameter, in hours.
LookBackDefault == 336

(* ------------------------------- keys --------------------------------- *)

Range(s) == {s[i] : i \in 1..Len(s)}

\* strings.HasPrefix / bytes.HasPrefix on token sequences.
HasPrefix(s, p) == Len(p) <= Len(s) /\ SubSeq(s, 1, Len(p)) = p

\* strings.Contains on token sequences.
Contains(s, p) ==
    \E i \in 0..(Len(s) - Len(p)) : SubSeq(s, i + 1, i + Len(p)) = p

BadgerPrefix == <<"!badger">>
HeadPrefix == <<"!badger", "!head">>
MovePrefix == <<"!badger", "!move">>
DiscardPrefix == <<"!badger", "!discard">>

\* The name of a table as tokens: "watchactivity" is "watch" then "activity".
TableTokens(tablename) ==
    IF tablename = "watchactivity" THEN <<"watch", "activity">> ELSE <<tablename>>

\* keyPrefix = "/" + tablename + "/"
TablePrefix(tablename) == <<"/">> \o TableTokens(tablename) \o <<"/">>

\* The four typed tables, in the order "all" expands to.
AllTables == <<"watch", "eventcount", "ressum", "watchactivity">>

(* ------------------------------- store -------------------------------- *)

\* Every version the model's stores are built from, in badger's iteration
\* order (byte order of the key, newer version first).  age is the number of
\* hours between the entry's partition and now.
Universe ==
    << [key |-> <<"!badger", "!discard">>, version |-> 1, size |-> 7, deleted |-> FALSE, age |-> 0],
       [key |-> <<"!badger", "!head">>, version |-> 1, size |-> 9, deleted |-> FALSE, age |-> 0],
       [key |-> <<"!badger", "!move">>, version |-> 1, size |-> 8, deleted |-> TRUE, age |-> 0],
       [key |-> <<"!badger", "!txn">>, version |-> 1, size |-> 4, deleted |-> FALSE, age |-> 0],
       [key |-> <<"/", "eventcount", "/", "1">>, version |-> 1, size |-> 5, deleted |-> FALSE, age |-> 1],
       [key |-> <<"/", "foo", "/", "1">>, version |-> 1, size |-> 6, deleted |-> FALSE, age |-> 1],
       [key |-> <<"/", "ressum", "/", "1">>, version |-> 1, size |-> 30, deleted |-> FALSE, age |-> 1],
       [key |-> <<"/", "watch", "/", "1">>, version |-> 2, size |-> 10, deleted |-> FALSE, age |-> 1],
       [key |-> <<"/", "watch", "/", "1">>, version |-> 1, size |-> 25, deleted |-> TRUE, age |-> 1],
       [key |-> <<"/", "watch", "/", "2">>, version |-> 1, size |-> 41, deleted |-> FALSE, age |-> 400],
       [key |-> <<"/", "watch", "activity", "/", "1">>, version |-> 1, size |-> 20, deleted |-> FALSE, age |-> 1] >>

RECURSIVE Pick(_, _)
\* The entries of Universe at the indices in S, in Universe's order.
Pick(S, i) ==
    IF i > Len(Universe) THEN <<>>
    ELSE IF i \in S THEN <<Universe[i]>> \o Pick(S, i + 1)
    ELSE Pick(S, i + 1)

\* The stores the model starts from: sorted, at most MaxStoreLen versions.
Stores ==
    {Pick(S, 1) : S \in {T \in SUBSET (1..Len(Universe)) : Cardinality(T) <= MaxStoreLen}}

(* ------------------------------ iterator ------------------------------ *)

\* itr.Rewind() of an iterator with iterOpt.Prefix = prefix: the position of
\* the first entry under the prefix, or past the end when there is none.
Rewind(store, prefix) ==
    IF \E i \in 1..Len(store) : HasPrefix(store[i].key, prefix)
    THEN CHOOSE i \in 1..Len(store) :
            /\ HasPrefix(store[i].key, prefix)
            /\ \A j \in 1..(i - 1) : ~HasPrefix(store[j].key, prefix)
    ELSE Len(store) + 1

\* itr.ValidForPrefix(prefix); itr.Valid() of an iterator opened with
\* iterOpt.Prefix = prefix checks the same.
ValidForPrefix(store, pos, prefix) ==
    pos <= Len(store) /\ HasPrefix(store[pos].key, prefix)

(* ------------------------------- errors ------------------------------- *)

NoKey == <<>>
NoError == [msg |-> "", arg |-> NoKey, cause |-> ""]
NewError(msg, arg, cause) == [msg |-> msg, arg |-> arg, cause |-> cause]

\* logWebError(err, note, request, writer): the error is written to the response.
logWebError(w, e, note) == [w EXCEPT !.errors = Append(@, [err |-> e, note |-> note])]

NewWriter == [errors |-> <<>>, rendered |-> FALSE]

\* template.Execute(writer, data)
Execute(w) == [w EXCEPT !.rendered = TRUE]

(* ------------------------------- regexp ------------------------------- *)

\* The patterns a request may carry: the empty pattern, a literal, an
\* anchored literal, and one with an unclosed group.
Patterns ==
    { <<>>, <<"watch">>, <<"1">>, <<"^", "!badger">>, <<"^", "/", "watch", "/">>, <<"(">> }

NilRegexp == [nil |-> TRUE, anchored |-> FALSE, lit |-> <<>>]

\* regexp.Compile: an unclosed "(" is a syntax error; "^" anchors at the start.
Compile(p) ==
    IF "(" \in Range(p)
    THEN [re |-> NilRegexp, err |-> NewError("error parsing regexp", p, "missing closing )")]
    ELSE IF p # <<>> /\ p[1] = "^"
    THEN [re |-> [nil |-> FALSE, anchored |-> TRUE, lit |-> Tail(p)], err |-> NoError]
    ELSE [re |-> [nil |-> FALSE, anchored |-> FALSE, lit |-> p], err |-> NoError]

\* (*Regexp).MatchString on a compiled pattern.
MatchString(re, s) == IF re.anchored THEN HasPrefix(s, re.lit) ELSE Contains(s, re.lit)

(* ------------------------- typed tables (store/typed) ------------------ *)

\* ValidateKey of a table's key type: the key is the table's prefix followed
\* by one non-empty field.
ValidateKey(tablename, k) ==
    /\ HasPrefix(k, TablePrefix(tablename))
    /\ Len(k) = Len(TablePrefix(tablename)) + 1
    /\ k[Len(k)] # "/"

RECURSIVE KeysOf(_, _, _, _, _)
\* The distinct keys of the table's entries whose partition is at most
\* lookBack hours old and whose key contains keySearch, in key order.
KeysOf(store, tablename, lookBack, keySearch, i) ==
    IF i > Len(store) THEN <<>>
    ELSE IF /\ HasPrefix(store[i].key, TablePrefix(tablename))
            /\ store[i].age <= lookBack
            /\ Contains(store[i].key, keySearch)
            /\ \A j \in 1..(i - 1) : store[j].key # store[i].key
         THEN <<store[i].key>> \o KeysOf(store, tablename, lookBack, keySearch, i + 1)
         ELSE KeysOf(store, tablename, lookBack, keySearch, i + 1)

\* Table.GetAllKeysForGivenPartitions(db, key, maxRows, lookBack, keySearch):
\* at most maxRows of the table's keys.
GetAllKeysForGivenPartitions(store, tablename, maxRows, lookBack, keySearch) ==
    LET all == KeysOf(store, tablename, lookBack, keySearch, 1)
    IN  IF maxRows <= 0 THEN <<>>
        ELSE IF Len(all) <= maxRows THEN all ELSE SubSeq(all, 1, maxRows)

(* ------------------------------- state -------------------------------- *)

VARIABLES
    db,      \* the store's versions, in iteration order (never written)
    pc,      \* where the running handler is; "idle" between requests
    txn,     \* store accesses of the running request: views, iterators, gets
    writer,  \* the response: errors logged to it, and whether a page was rendered
    vk,      \* viewKeyHandler's locals
    lk,      \* listKeysHandler's locals
    hg,      \* histogramHandler's locals
    result   \* histogramHandler's result (type histogram)

vars == <<db, pc, txn, writer, vk, lk, hg, result>>

NoTxn == [views |-> 0, iterators |-> 0, gets |-> 0]

NoView == [key |-> NoKey, table |-> "", valueFromTable |-> NoKey, err |-> NoError]

NoList ==
    [table |-> "", maxRows |-> 0, regexSearch |-> FALSE, keyRegEx |-> NilRegexp,
     keymatch |-> <<>>, lookBack |-> 0, keySearch |-> <<>>, keys |-> <<>>, count |-> 0,
     totalCount |-> 0, totalSize |-> 0, tablesToSearch |-> <<>>, ti |-> 1,
     keyPrefix |-> <<>>, itr |-> 0]

\* var sloopMap = make(map[common.SloopKey]*sloopKeyInfo)
EmptyMap == [c \in {} |-> 0]

NoHist ==
    [param |-> <<>>, prefix |-> <<>>, itr |-> 0, start |-> 0, totalKeys |-> 0, totalEstimatedSize |-> 0,
     totalInternalKeysSize |-> 0, totalDeletedExpiredKeys |-> 0, totalInternalKeys |-> 0,
     totalMoveKeys |-> 0, totalHeadKeys |-> 0, totalDiscardKeys |-> 0, totalSloopKeys |-> 0,
     sloopMap |-> EmptyMap, err |-> NoError]

\* var result histogram
ZeroHistogram ==
    [HistogramMap |-> EmptyMap, TotalKeys |-> 0, TotalSloopKeys |-> 0,
     TotalEstimatedSize |-> 0, DeletedKeys |-> 0, TotalInternalKeys |-> 0,
     TotalInternalKeysSize |-> 0, TotalHeadKeys |-> 0, TotalMoveKeys |-> 0,
     TotalDiscardKeys |-> 0]

Init ==
    /\ db \in Stores
    /\ pc = "idle"
    /\ txn = NoTxn
    /\ writer = NewWriter
    /\ vk = NoView
    /\ lk = NoList
    /\ hg = NoHist
    /\ result = ZeroHistogram

(* --------------------------- listKeysHandler -------------------------- *)

\* The values of the table parameter the model sends.
Selectors == {"watch", "eventcount", "ressum", "watchactivity", "all", "internal", "foo"}

\* The values of the urlmatch parameter the model sends.
KeySearches == { <<>>, <<"1">> }

\* if table == "all" { the four tables } else { table }
TablesToSearch(table) == IF table = "all" THEN AllTables ELSE <<table>>

\* keyPrefix of the regex scan: none for "internal".
KeyPrefix(tablename) == IF tablename # "internal" THEN TablePrefix(tablename) ELSE <<>>

\* Reading the parameters, compiling the pattern and choosing the tables.
\* A pattern that does not compile is logged; the handler goes on.
ListKeysRequest ==
    /\ pc = "idle"
    /\ \E table \in Selectors, maxRows \in 0..MaxCap, regexSearch \in BOOLEAN,
          keymatch \in Patterns, lookBack \in {0, LookBackDefault}, keySearch \in KeySearches :
          /\ regexSearch => (lookBack = 0 /\ keySearch = <<>>)
          /\ ~regexSearch => keymatch = <<>>
          /\ LET c == Compile(keymatch)
             IN  /\ lk' = [NoList EXCEPT !.table = table, !.maxRows = maxRows,
                              !.regexSearch = regexSearch, !.keymatch = keymatch,
                              !.keyRegEx = IF regexSearch THEN c.re ELSE NilRegexp,
                              !.lookBack = lookBack, !.keySearch = keySearch,
                              !.tablesToSearch = TablesToSearch(table)]
                 /\ writer' = IF regexSearch /\ c.err # NoError
                              THEN logWebError(NewWriter, c.err, "Invalid regex")
                              ELSE NewWriter
    /\ pc' = "lk_view"
    /\ txn' = NoTxn
    /\ UNCHANGED <<db, vk, hg, result>>

\* tables.Db().View(...) in regex mode: the loop over tablesToSearch starts.
ListViewRegex ==
    /\ pc = "lk_view"
    /\ lk.regexSearch
    /\ txn' = [txn EXCEPT !.views = @ + 1]
    /\ pc' = "lk_table"
    /\ UNCHANGED <<db, writer, vk, lk, hg, result>>

\* The next table of the regex loop: its iterator is opened and rewound; after
\* the last table the view function returns nil.
ListNextTable ==
    /\ pc = "lk_table"
    /\ IF lk.ti > Len(lk.tablesToSearch)
       THEN /\ pc' = "lk_return"
            /\ UNCHANGED <<lk, txn>>
       ELSE LET keyPrefix == KeyPrefix(lk.tablesToSearch[lk.ti])
            IN  /\ lk' = [lk EXCEPT !.keyPrefix = keyPrefix, !.itr = Rewind(db, keyPrefix)]
                /\ txn' = [txn EXCEPT !.iterators = @ + 1]
                /\ pc' = "lk_scan"
    /\ UNCHANGED <<db, writer, vk, hg, result>>

\* if count >= maxRows { break }
CapReached(count, maxRows) == count >= maxRows

\* One turn of the scan loop of the current table.
ListScan ==
    /\ pc = "lk_scan"
    /\ IF ~ValidForPrefix(db, lk.itr, lk.keyPrefix)
       THEN /\ lk' = [lk EXCEPT !.ti = @ + 1]
            /\ pc' = "lk_table"
       ELSE LET thisKey == db[lk.itr].key
            IN  IF lk.keyRegEx.nil
                THEN \* keyRegEx.MatchString on a nil *Regexp panics
                     /\ lk' = [lk EXCEPT !.totalCount = @ + 1]
                     /\ pc' = "panic"
                ELSE IF MatchString(lk.keyRegEx, thisKey)
                THEN LET count == lk.count + 1
                     IN  /\ lk' = [lk EXCEPT !.totalCount = @ + 1,
                                      !.keys = Append(@, thisKey),
                                      !.count = count,
                                      !.totalSize = @ + db[lk.itr].size,
                                      !.ti = IF CapReached(count, lk.maxRows) THEN @ + 1 ELSE @,
                                      !.itr = IF CapReached(count, lk.maxRows) THEN @ ELSE @ + 1]
                         /\ pc' = IF CapReached(count, lk.maxRows) THEN "lk_table" ELSE "lk_scan"
                ELSE /\ lk' = [lk EXCEPT !.totalCount = @ + 1, !.itr = @ + 1]
                     /\ pc' = "lk_scan"
    /\ UNCHANGED <<db, txn, writer, vk, hg, result>>

RECURSIVE PartitionedKeys(_, _, _, _, _, _)
\* The loop over tablesToSearch in partitioned mode: the keys of each of the
\* four typed tables are appended; any other name adds nothing.
PartitionedKeys(store, tables, maxRows, lookBack, keySearch, i) ==
    IF i > Len(tables) THEN <<>>
    ELSE (IF tables[i] \in Range(AllTables)
          THEN GetAllKeysForGivenPartitions(store, tables[i], maxRows, lookBack, keySearch)
          ELSE <<>>)
         \o PartitionedKeys(store, tables, maxRows, lookBack, keySearch, i + 1)

\* tables.Db().View(...) in partitioned mode.
ListViewPartitioned ==
    /\ pc = "lk_view"
    /\ ~lk.regexSearch
    /\ LET keys == PartitionedKeys(db, lk.tablesToSearch, lk.maxRows, lk.lookBack, lk.keySearch, 1)
       IN  lk' = [lk EXCEPT !.keys = keys, !.count = Len(keys), !.totalSize = Len(keys),
                      !.totalCount = Len(keys)]
    /\ txn' = [txn EXCEPT !.views = @ + 1]
    /\ pc' = "lk_return"
    /\ UNCHANGED <<db, writer, vk, hg, result>>

\* The view returned nil: the keysData result is rendered.
ListRender ==
    /\ pc = "lk_return"
    /\ writer' = Execute(writer)
    /\ pc' = "done"
    /\ UNCHANGED <<db, txn, vk, lk, hg, result>>

\* The request is over (rendered, failed, or the panic was recovered by the
\* server); the next request starts from a fresh handler invocation.
Finish ==
    /\ pc \in {"done", "failed", "panic"}
    /\ pc' = "idle"
    /\ txn' = NoTxn
    /\ writer' = NewWriter
    /\ vk' = NoView
    /\ lk' = NoList
    /\ hg' = NoHist
    /\ result' = ZeroHistogram
    /\ UNCHANGED db

(* --------------------------- histogramHandler ------------------------- *)

\* The values of the prefix parameter the model sends: none, the wildcard,
\* and prefixes of internal and of domain keys.
HistPrefixes ==
    { <<>>, <<"*">>, <<"!badger">>, <<"/">>, <<"/", "watch">>, <<"/", "watch", "/">>,
      <<"/", "foo", "/">> }

\* A variant of PrefixSupplied that computes the histogram for every request.
PrefixAlwaysSupplied(prefix) == TRUE

\* if len(prefix) > 0
PrefixSupplied(prefix) == Len(prefix) > 0

\* if prefix == "*" { prefix = "" }
IterPrefix(prefix) == IF prefix = <<"*">> THEN <<>> ELSE prefix

\* strings.HasPrefix(string(item.Key()), "!badger")
IsInternalKey(k) == HasPrefix(k, BadgerPrefix)

\* common.GetSloopKey(item): the key's category, or an error for a key that
\* has the shape of no table's keys.
GetSloopKey(k) ==
    IF \E t \in Range(AllTables) : ValidateKey(t, k)
    THEN [sloopKey |-> CHOOSE t \in Range(AllTables) : ValidateKey(t, k), err |-> NoError]
    ELSE [sloopKey |-> "", err |-> NewError("invalid sloop key", k, "")]

\* A variant of Wrapf that loses the error (as wrapping a nil error does).
WrapfNil(err, k) == NoError

\* errors.Wrapf(err, "failed to parse information about key: %x", item.Key())
Wrapf(err, k) == NewError("failed to parse information about key", k, err.msg)

\* &sloopKeyInfo{size, size, 1, size, size}
NewInfo(size) ==
    [MinimumSize |-> size, MaximumSize |-> size, TotalKeys |-> 1, TotalSize |-> size,
     AverageSize |-> size]

\* A variant of UpdateInfo that divides by the count before it is incremented.
UpdateInfoStaleCount(info, size) ==
    [MinimumSize |-> IF size < info.MinimumSize THEN size ELSE info.MinimumSize,
     MaximumSize |-> IF size > info.MaximumSize THEN size ELSE info.MaximumSize,
     TotalKeys |-> info.TotalKeys + 1,
     TotalSize |-> info.TotalSize + size,
     AverageSize |-> (info.TotalSize + size) \div info.TotalKeys]

\* The update of a category's sloopKeyInfo by one more entry.
UpdateInfo(info, size) ==
    LET TotalKeys == info.TotalKeys + 1
        TotalSize == info.TotalSize + size
    IN  [MinimumSize |-> IF size < info.MinimumSize THEN size ELSE info.MinimumSize,
         MaximumSize |-> IF size > info.MaximumSize THEN size ELSE info.MaximumSize,
         TotalKeys |-> TotalKeys,
         TotalSize |-> TotalSize,
         AverageSize |-> TotalSize \div TotalKeys]

\* if sloopMap[sloopKey] == nil { new } else { update }
Observe(sloopMap, sloopKey, size) ==
    [c \in DOMAIN sloopMap \cup {sloopKey} |->
        IF c # sloopKey THEN sloopMap[c]
        ELSE IF sloopKey \notin DOMAIN sloopMap THEN NewInfo(size)
        ELSE UpdateInfo(sloopMap[sloopKey], size)]

\* The counters of the locals h after the internal entry item.
CountInternal(h, item) ==
    [h EXCEPT !.totalInternalKeys = @ + 1,
              !.totalInternalKeysSize = @ + item.size,
              !.totalHeadKeys = IF HasPrefix(item.key, HeadPrefix) THEN @ + 1 ELSE @,
              !.totalMoveKeys = IF ~HasPrefix(item.key, HeadPrefix) /\ HasPrefix(item.key, MovePrefix)
                                THEN @ + 1 ELSE @,
              !.totalDiscardKeys = IF /\ ~HasPrefix(item.key, HeadPrefix)
                                      /\ ~HasPrefix(item.key, MovePrefix)
                                      /\ HasPrefix(item.key, DiscardPrefix)
                                   THEN @ + 1 ELSE @]

\* A variant of CountEntry that leaves deleted or expired entries out of totalKeys.
CountEntrySkipDeleted(h, item) ==
    [h EXCEPT !.totalEstimatedSize = @ + item.size,
              !.totalKeys = IF item.deleted THEN @ ELSE @ + 1,
              !.totalDeletedExpiredKeys = IF item.deleted THEN @ + 1 ELSE @]

\* The locals h after the entry item has been counted in the totals.
CountEntry(h, item) ==
    [h EXCEPT !.totalEstimatedSize = @ + item.size,
              !.totalKeys = @ + 1,
              !.totalDeletedExpiredKeys = IF item.deleted THEN @ + 1 ELSE @]

\* The assignments to result at the end of the view function.
Publish(h) ==
    [HistogramMap |-> h.sloopMap, TotalKeys |-> h.totalKeys,
     TotalSloopKeys |-> h.totalSloopKeys, TotalEstimatedSize |-> h.totalEstimatedSize,
     DeletedKeys |-> h.totalDeletedExpiredKeys, TotalInternalKeys |-> h.totalInternalKeys,
     TotalInternalKeysSize |-> h.totalInternalKeysSize, TotalHeadKeys |-> h.totalHeadKeys,
     TotalMoveKeys |-> h.totalMoveKeys, TotalDiscardKeys |-> h.totalDiscardKeys]

\* The request: without a prefix parameter the handler goes straight to
\* rendering the zero result.
HistogramRequest ==
    /\ pc = "idle"
    /\ \E prefix \in HistPrefixes :
          /\ hg' = [NoHist EXCEPT !.param = prefix]
          /\ pc' = IF PrefixSupplied(prefix) THEN "hg_view" ELSE "hg_render"
    /\ result' = ZeroHistogram
    /\ txn' = NoTxn
    /\ writer' = NewWriter
    /\ UNCHANGED <<db, vk, lk>>

\* tables.Db().View(...): the iterator is opened on the prefix and rewound.
HistogramView ==
    /\ pc = "hg_view"
    /\ LET prefix == IterPrefix(hg.param)
       IN  hg' = [hg EXCEPT !.prefix = prefix, !.itr = Rewind(db, prefix),
                      !.start = Rewind(db, prefix)]
    /\ txn' = [txn EXCEPT !.views = @ + 1, !.iterators = @ + 1]
    /\ pc' = "hg_scan"
    /\ UNCHANGED <<db, writer, vk, lk, result>>

\* One turn of the scan loop; when the iterator is exhausted the locals are
\* assigned to result and the view function returns nil.
HistogramScan ==
    /\ pc = "hg_scan"
    /\ IF ~ValidForPrefix(db, hg.itr, hg.prefix)
       THEN /\ result' = Publish(hg)
            /\ pc' = "hg_return"
            /\ hg' = hg
       ELSE LET item == db[hg.itr]
                h == CountEntry(hg, item)
            IN  IF IsInternalKey(item.key)
                THEN /\ hg' = [CountInternal(h, item) EXCEPT !.itr = @ + 1]
                     /\ pc' = "hg_scan"
                     /\ result' = result
                ELSE LET g == GetSloopKey(item.key)
                         d == [h EXCEPT !.totalSloopKeys = @ + 1]
                     IN  IF g.err # NoError
                         THEN /\ hg' = [d EXCEPT !.err = Wrapf(g.err, item.key)]
                              /\ pc' = "hg_return"
                              /\ result' = result
                         ELSE /\ hg' = [d EXCEPT !.sloopMap = Observe(@, g.sloopKey, item.size),
                                                !.itr = @ + 1]
                              /\ pc' = "hg_scan"
                              /\ result' = result
    /\ UNCHANGED <<db, txn, writer, vk, lk>>

\* After the view: its error is logged and the handler returns.
HistogramReturn ==
    /\ pc = "hg_return"
    /\ IF hg.err # NoError
       THEN /\ writer' = logWebError(writer, hg.err, "Could not get histogram")
            /\ pc' = "failed"
       ELSE /\ writer' = writer
            /\ pc' = "hg_render"
    /\ UNCHANGED <<db, txn, vk, lk, hg, result>>

\* debugHistogramTemplate.Execute(writer, result)
HistogramRender ==
    /\ pc = "hg_render"
    /\ writer' = Execute(writer)
    /\ pc' = "done"
    /\ UNCHANGED <<db, txn, vk, lk, hg, result>>

(* ---------------------------- viewKeyHandler -------------------------- *)

\* The values of the k parameter the model sends: every key of Universe, a
\* well-formed key no store holds, and keys of no table.
ViewKeys ==
    Range([i \in 1..Len(Universe) |-> Universe[i].key])
        \cup { <<"/", "watch", "/", "9">>, <<"bogus">>, <<>>, <<"/", "watch", "/">> }

\* The order the key types are probed in.
ProbeOrder == <<"watch", "ressum", "eventcount", "watchactivity">>

\* A variant of OwningTable that falls back to the watch table.
OwningTableOrWatch(k) ==
    IF \E i \in 1..Len(ProbeOrder) : ValidateKey(ProbeOrder[i], k)
    THEN ProbeOrder[CHOOSE i \in 1..Len(ProbeOrder) :
                       /\ ValidateKey(ProbeOrder[i], k)
                       /\ \A j \in 1..(i - 1) : ~ValidateKey(ProbeOrder[j], k)]
    ELSE "watch"

\* The table of the first key type whose ValidateKey accepts the key; "" when
\* none does.
OwningTable(k) ==
    IF \E i \in 1..Len(ProbeOrder) : ValidateKey(ProbeOrder[i], k)
    THEN ProbeOrder[CHOOSE i \in 1..Len(ProbeOrder) :
                       /\ ValidateKey(ProbeOrder[i], k)
                       /\ \A j \in 1..(i - 1) : ~ValidateKey(ProbeOrder[j], k)]
    ELSE ""

\* Table.Get(txn, key): the newest version of the key, unless there is none or
\* it is deleted.
Get(store, k) ==
    LET i == Rewind(store, k)
    IN  IF i <= Len(store) /\ store[i].key = k /\ ~store[i].deleted
        THEN [value |-> k, err |-> NoError]
        ELSE [value |-> NoKey, err |-> NewError("Key not found", k, "")]

ViewKeyRequest ==
    /\ pc = "idle"
    /\ \E key \in ViewKeys : vk' = [NoView EXCEPT !.key = key]
    /\ pc' = "vk_view"
    /\ txn' = NoTxn
    /\ writer' = NewWriter
    /\ UNCHANGED <<db, lk, hg, result>>

\* tables.Db().View(...): the key types are probed inside the transaction and
\* the value is read from the first table that accepts the key.
ViewKeyView ==
    /\ pc = "vk_view"
    /\ LET t == OwningTable(vk.key)
       IN  IF t = ""
           THEN /\ vk' = [vk EXCEPT !.err = NewError("Invalid key", vk.key, "")]
                /\ txn' = [txn EXCEPT !.views = @ + 1]
           ELSE LET g == Get(db, vk.key)
                IN  /\ vk' = [vk EXCEPT !.err = g.err, !.valueFromTable = g.value, !.table = t]
                    /\ txn' = [txn EXCEPT !.views = @ + 1, !.gets = @ + 1]
    /\ pc' = "vk_return"
    /\ UNCHANGED <<db, writer, lk, hg, result>>

\* After the view: its error is logged and the handler returns; otherwise the
\* value is rendered.
ViewKeyReturn ==
    /\ pc = "vk_return"
    /\ IF vk.err # NoError
       THEN /\ writer' = logWebError(writer, vk.err, "view transaction failed")
            /\ pc' = "failed"
       ELSE /\ writer' = Execute(writer)
            /\ pc' = "done"
    /\ UNCHANGED <<db, txn, vk, lk, hg, result>>

(* --------------------------- specifications --------------------------- *)

NextList ==
    \/ ListKeysRequest
    \/ ListViewRegex
    \/ ListNextTable
    \/ ListScan
    \/ ListViewPartitioned
    \/ ListRender
    \/ Finish

SpecList == Init /\ [][NextList]_vars


NextHistogram ==
    \/ HistogramRequest
    \/ HistogramView
    \/ HistogramScan
    \/ HistogramReturn
    \/ HistogramRender
    \/ Finish

SpecHistogram == Init /\ [][NextHistogram]_vars

NextViewKey ==
    \/ ViewKeyRequest
    \/ ViewKeyView
    \/ ViewKeyReturn
    \/ Finish

SpecViewKey == Init /\ [][NextViewKey]_vars

Next == NextList \/ NextHistogram \/ NextViewKey

Spec == Init /\ [][Next]_vars

(* ------------------------------ properties ---------------------------- *)

\* The table selectors the handler knows.
KnownSelectors == Range(AllTables) \cup {"all", "internal"}

\* C1: in regex mode the matched count and the number of matched keys never
\* exceed the cap maxRows, for every cap >= 0 and every table selector.
C1_RegexWithinCap ==
    lk.regexSearch => (lk.count <= lk.maxRows /\ Len(lk.keys) <= lk.maxRows)

\* C2: in regex mode with a pattern that does not compile the search is
\* aborted: no iterator is opened, no key is scanned, nothing is rendered and
\* the handler does not crash.
C2_InvalidPatternAborts ==
    (lk.regexSearch /\ Compile(lk.keymatch).err # NoError) =>
        /\ txn.iterators = 0
        /\ lk.totalCount = 0
        /\ ~writer.rendered
        /\ pc # "panic"

\* C3: in partitioned mode the result holds at most maxRows keys, for every
\* table selector ("all" included).
C3_PartitionedWithinCap ==
    (pc \in {"lk_return", "done"} /\ lk.tablesToSearch # <<>> /\ ~lk.regexSearch) =>
        Len(lk.keys) <= lk.maxRows

\* C8: a list request whose table selector is not known ends with an unknown
\* table error, in regex mode and in partitioned mode; no result is rendered.
C8_UnknownTableIsError ==
    (pc = "done" /\ lk.tablesToSearch # <<>> /\ lk.table \notin KnownSelectors) =>
        /\ ~writer.rendered
        /\ \E i \in 1..Len(writer.errors) : writer.errors[i].err.msg = "unknown table"

\* C9: in regex mode with the selector "internal" every matched key begins
\* with the internal sentinel "!badger".
C9_InternalOnlySentinel ==
    (lk.regexSearch /\ lk.table = "internal") =>
        \A i \in 1..Len(lk.keys) : HasPrefix(lk.keys[i], BadgerPrefix)

\* The positions of db the histogram scan has visited so far.
HgVisited ==
    IF hg.start = 0 THEN {}
    ELSE {i \in 1..Len(db) :
            hg.start <= i /\ (i < hg.itr \/ (i = hg.itr /\ hg.err # NoError))}

\* The visited positions holding an internal key.
HgInternal == {i \in HgVisited : HasPrefix(db[i].key, BadgerPrefix)}

\* The visited internal positions that are neither head, move nor discard.
HgOtherInternal ==
    {i \in HgInternal : /\ ~HasPrefix(db[i].key, HeadPrefix)
                        /\ ~HasPrefix(db[i].key, MovePrefix)
                        /\ ~HasPrefix(db[i].key, DiscardPrefix)}

\* C4: after every visited entry, every entry has been counted as exactly one
\* of internal or domain (totalKeys = totalInternalKeys + totalSloopKeys), and
\* head + move + discard <= internal, the difference being the internal keys
\* of none of the three kinds; a successful run publishes these counters.
C4_Classification ==
    /\ hg.totalKeys = Cardinality(HgVisited)
    /\ hg.totalInternalKeys = Cardinality(HgInternal)
    /\ hg.totalSloopKeys = Cardinality(HgVisited \ HgInternal)
    /\ hg.totalKeys = hg.totalInternalKeys + hg.totalSloopKeys
    /\ hg.totalHeadKeys + hg.totalMoveKeys + hg.totalDiscardKeys <= hg.totalInternalKeys
    /\ hg.totalInternalKeys - (hg.totalHeadKeys + hg.totalMoveKeys + hg.totalDiscardKeys)
          = Cardinality(HgOtherInternal)
    /\ result.TotalKeys = result.TotalInternalKeys + result.TotalSloopKeys
    /\ result.TotalHeadKeys + result.TotalMoveKeys + result.TotalDiscardKeys
          <= result.TotalInternalKeys
    /\ (pc \in {"hg_render", "done"} /\ hg.start # 0) => result = Publish(hg)

\* C4's case: a finished run over head, other internal and domain keys.
C4_Witness ==
    /\ pc = "done"
    /\ result.TotalHeadKeys > 0
    /\ result.TotalSloopKeys > 0
    /\ result.TotalInternalKeys > result.TotalHeadKeys + result.TotalMoveKeys + result.TotalDiscardKeys

\* The visited positions whose domain key is of category c.
HgOfCategory(c) ==
    {i \in HgVisited \ HgInternal :
        GetSloopKey(db[i].key).err = NoError /\ GetSloopKey(db[i].key).sloopKey = c}

RECURSIVE SumSizes(_)
SumSizes(S) ==
    IF S = {} THEN 0
    ELSE LET i == CHOOSE j \in S : TRUE IN db[i].size + SumSizes(S \ {i})

HgStoppedOnCorruptKey ==
    /\ pc \in {"hg_return", "hg_render", "failed", "done"}
    /\ hg.start # 0
    /\ ValidForPrefix(db, hg.itr, hg.prefix)

\* C6: when categorization fails for a visited domain entry the scan stops at
\* that entry, the handler fails with an error that wraps the cause and names
\* the entry's key, and nothing accumulated so far is published or rendered.
C6_StrictFailure ==
    HgStoppedOnCorruptKey =>
        /\ pc \in {"hg_return", "failed"}
        /\ ~IsInternalKey(db[hg.itr].key)
        /\ GetSloopKey(db[hg.itr].key).err # NoError
        /\ hg.err.arg = db[hg.itr].key
        /\ hg.err.cause = GetSloopKey(db[hg.itr].key).err.msg
        /\ hg.totalKeys = hg.itr - hg.start + 1
        /\ result = ZeroHistogram
        /\ ~writer.rendered
        /\ pc = "failed" =>
              writer.errors = <<[err |-> hg.err, note |-> "Could not get histogram"]>>

\* C6's case: the failure comes after statistics were accumulated and before
\* the last entry.
C6_Witness ==
    /\ pc = "failed"
    /\ hg.err # NoError
    /\ hg.totalKeys >= 2
    /\ hg.sloopMap # EmptyMap
    /\ hg.itr < Len(db)

\* No key type accepts the key.
InvalidKey(k) == \A t \in Range(AllTables) : ~ValidateKey(t, k)

\* C7 as stated: for a key no validator accepts the lookup ends in an invalid
\* key error, nothing is rendered and the store is not accessed at all (no
\* snapshot, no point-get).
C7_NoStoreAccess ==
    (pc \in {"vk_return", "failed", "done"} /\ InvalidKey(vk.key)) =>
        /\ txn = NoTxn
        /\ vk.err.msg = "Invalid key"
        /\ ~writer.rendered

\* C7 amended: for a key no validator accepts the lookup ends in an invalid
\* key error naming the key, nothing is rendered and no point-get is made; the
\* validators are probed inside the read transaction, which is opened once.
C7_NoPointGet ==
    (pc \in {"vk_return", "failed", "done"} /\ InvalidKey(vk.key)) =>
        /\ txn = [views |-> 1, iterators |-> 0, gets |-> 0]
        /\ vk.err = NewError("Invalid key", vk.key, "")
        /\ ~writer.rendered
        /\ pc # "done"
        /\ pc = "failed" =>
              writer.errors = <<[err |-> vk.err, note |-> "view transaction failed"]>>

\* C7's case: the lookup of a key of no table has failed although the store
\* holds the key.
C7_Witness ==
    /\ pc = "failed"
    /\ InvalidKey(vk.key)
    /\ \E i \in 1..Len(db) : db[i].key = vk.key

\* C10: without a prefix parameter no snapshot is opened, no entry is visited
\* and the zero histogram is rendered without error; the iterator has no
\* prefix (the whole keyspace) only for the wildcard "*".
C10_OptIn ==
    /\ (pc \notin {"idle", "failed"} /\ hg.param = <<>>) =>
          /\ txn = NoTxn
          /\ hg.start = 0
          /\ hg.totalKeys = 0
          /\ result = ZeroHistogram
          /\ writer.errors = <<>>
          /\ pc \in {"hg_render", "done"}
          /\ pc = "done" => writer.rendered
    /\ pc # "failed" \/ hg.param # <<>>
    /\ txn.iterators > 0 =>
          /\ hg.prefix = <<>> <=> hg.param = <<"*">>
          /\ hg.param # <<"*">> => hg.prefix = hg.param

\* C10's case: a request without prefix against a store that holds entries
\* has been answered.
C10_Witness ==
    /\ pc = "done"
    /\ hg.param = <<>>
    /\ Len(db) > 0
    /\ writer.rendered
    /\ result = ZeroHistogram

====
